---- MODULE Spec2Model ----
(***************************************************************************)
(* Model of mux-system.py: the episode argument parser, episode discovery, *)
(* the per-episode mux routine and the main run loop.                      *)
(*                                                                         *)
(* A Python str is a sequence of one-character strings, so that split,     *)
(* strip, isdigit and int are computed the way the interpreter computes    *)
(* them.                                                                   *)
(***************************************************************************)
EXTENDS Integers, Sequences, FiniteSets, TLC

\* ---------------------------------------------------------------- bounds
\* Longest episode argument explored by the parser-only specification.
MaxLen == 4
\* Longest episode argument explored by the whole-run specification.
MainLen == 3
\* Longest configured title tuple.
MaxTitles == 2
\* Most subtitle files the discovery search returns.
MaxFiles == 2
\* Largest selection a run is started with.
MaxEpisodes == 4

\* ------------------------------------------------------- Python str model
DigitChars == <<"0", "1", "2", "3", "4", "5", "6", "7", "8", "9">>

IsDigitChar(c) == \E i \in 1..Len(DigitChars) : DigitChars[i] = c

DigitVal(c) == (CHOOSE i \in 1..Len(DigitChars) : DigitChars[i] = c) - 1

\* str.isdigit(): non-empty and every character a digit.
isdigit(s) == Len(s) > 0 /\ \A i \in 1..Len(s) : IsDigitChar(s[i])

\* int(s) for a digit string: leading zeros are dropped ("01" is 1).
RECURSIVE int(_)
int(s) ==
    IF s = <<>> THEN 0
    ELSE 10 * int(SubSeq(s, 1, Len(s) - 1)) + DigitVal(s[Len(s)])

\* str.strip(): removes leading and trailing whitespace.
RECURSIVE lstrip(_)
lstrip(s) ==
    IF s # <<>> /\ s[1] = " " THEN lstrip(Tail(s)) ELSE s

RECURSIVE rstrip(_)
rstrip(s) ==
    IF s # <<>> /\ s[Len(s)] = " " THEN rstrip(SubSeq(s, 1, Len(s) - 1)) ELSE s

strip(s) == rstrip(lstrip(s))

\* sep in s, for a one-character sep.
Contains(s, sep) == \E i \in 1..Len(s) : s[i] = sep

\* str.split(sep): "" gives [""], "1," gives ["1", ""].
RECURSIVE split(_, _)
split(s, sep) ==
    IF ~Contains(s, sep) THEN <<s>>
    ELSE LET i == CHOOSE k \in 1..Len(s) :
                    s[k] = sep /\ \A j \in 1..(k - 1) : s[j] # sep
         IN  <<SubSeq(s, 1, i - 1)>> \o split(SubSeq(s, i + 1, Len(s)), sep)

\* range(start, stop) as a list.
range(start, stop) ==
    IF stop <= start THEN <<>> ELSE [i \in 1..(stop - start) |-> start + i - 1]

SeqSet(q) == {q[i] : i \in 1..Len(q)}

Min(S) == CHOOSE m \in S : \A x \in S : m <= x

\* sorted(S) for a set of integers.
RECURSIVE sorted(_)
sorted(S) ==
    IF S = {} THEN <<>> ELSE <<Min(S)>> \o sorted(S \ {Min(S)})

\* ------------------------------------------------------ parse_episode_list
ALL == <<"a", "l", "l">>

\* The result of raising ValueError.
ValueError == [ok |-> FALSE, episodes |-> <<>>]

Ok(eps) == [ok |-> TRUE, episodes |-> eps]

\* The mutant: a range is not checked for start > end.
ParseItemNoRangeCheck(raw) ==
    LET item == strip(raw)
    IN  IF Contains(item, "-")
        THEN LET parts == split(item, "-")
             IN  IF Len(parts) # 2
                    \/ ~(\A k \in 1..Len(parts) : isdigit(strip(parts[k])))
                 THEN ValueError
                 ELSE LET start == int(strip(parts[1]))
                          end   == int(strip(parts[2]))
                      IN  Ok(range(start, end + 1))
        ELSE IF isdigit(item) THEN Ok(<<int(item)>>)
        ELSE ValueError

\* The mutant: an item that is neither a number nor a range is skipped.
ParseItemSkipOther(raw) ==
    LET item == strip(raw)
    IN  IF Contains(item, "-")
        THEN LET parts == split(item, "-")
             IN  IF Len(parts) # 2
                    \/ ~(\A k \in 1..Len(parts) : isdigit(strip(parts[k])))
                 THEN ValueError
                 ELSE LET start == int(strip(parts[1]))
                          end   == int(strip(parts[2]))
                      IN  IF start > end THEN ValueError
                          ELSE Ok(range(start, end + 1))
        ELSE IF isdigit(item) THEN Ok(<<int(item)>>)
        ELSE Ok(<<>>)

\* One iteration of the for loop, lines 302-321: the episodes the item
\* contributes, or ValueError.
ParseItem(raw) ==
    LET item == strip(raw)
    IN  IF Contains(item, "-")
        THEN LET parts == split(item, "-")
             IN  IF Len(parts) # 2
                    \/ ~(\A k \in 1..Len(parts) : isdigit(strip(parts[k])))
                 THEN ValueError
                 ELSE LET start == int(strip(parts[1]))
                          end   == int(strip(parts[2]))
                      IN  IF start > end THEN ValueError
                          ELSE Ok(range(start, end + 1))
        ELSE IF isdigit(item) THEN Ok(<<int(item)>>)
        ELSE ValueError

\* The for loop over the items: the list `episodes` it builds, or ValueError
\* at the first item that raises.
RECURSIVE ParseItems(_)
ParseItems(items) ==
    IF items = <<>> THEN Ok(<<>>)
    ELSE LET head == ParseItem(items[1])
         IN  IF ~head.ok THEN ValueError
             ELSE LET rest == ParseItems(Tail(items))
                  IN  IF ~rest.ok THEN ValueError
                      ELSE Ok(head.episodes \o rest.episodes)

\* The list `episodes` just before the return statement.
Expand(episode_arg) == ParseItems(split(episode_arg, ","))

\* first-occurrence de-duplication of a list
RECURSIVE DedupFirst(_)
DedupFirst(q) ==
    IF q = <<>> THEN <<>>
    ELSE LET init == DedupFirst(SubSeq(q, 1, Len(q) - 1))
         IN  IF q[Len(q)] \in SeqSet(init) THEN init
             ELSE Append(init, q[Len(q)])

\* The mutant: duplicates removed, first occurrences kept in place.
parse_episode_list_unsorted(episode_arg) ==
    IF episode_arg = ALL THEN Ok(<<>>)
    ELSE LET r == Expand(episode_arg)
         IN  IF r.ok THEN Ok(DedupFirst(r.episodes)) ELSE ValueError

parse_episode_list(episode_arg) ==
    IF episode_arg = ALL THEN Ok(<<>>)
    ELSE LET r == Expand(episode_arg)
         IN  IF r.ok THEN Ok(sorted(SeqSet(r.episodes))) ELSE ValueError

\* --------------------------------------------------- _discover_all_episodes
\* re.compile(r".*?(\d+).*").match(stem): group 1 is the first maximal run of
\* digits of the stem; there is no match when the stem holds no digit.
HasDigit(stem) == \E i \in 1..Len(stem) : IsDigitChar(stem[i])

FirstDigitRun(stem) ==
    LET b == CHOOSE k \in 1..Len(stem) :
                 IsDigitChar(stem[k]) /\ \A j \in 1..(k - 1) : ~IsDigitChar(stem[j])
        e == CHOOSE k \in b..Len(stem) :
                 /\ \A j \in b..k : IsDigitChar(stem[j])
                 /\ (k = Len(stem) \/ ~IsDigitChar(stem[k + 1]))
    IN  SubSeq(stem, b, e)

\* The mutant: the identifiers in path order, neither sorted nor de-duplicated.
RECURSIVE discover_all_episodes_in_path_order(_)
discover_all_episodes_in_path_order(paths) ==
    IF paths = <<>> THEN <<>>
    ELSE LET rest == discover_all_episodes_in_path_order(Tail(paths))
         IN  IF HasDigit(paths[1])
             THEN <<int(FirstDigitRun(paths[1]))>> \o rest
             ELSE rest

\* paths: the stems of the files GlobSearch("*.ass") returned.
discover_all_episodes(paths) ==
    sorted({int(FirstDigitRun(paths[i])) :
                i \in {k \in 1..Len(paths) : HasDigit(paths[k])}})

\* ------------------------------------------------------------- mux_episode
NORMAL == "normal"
DRYRUN == "dryrun"

None == "None"

MuxResult(episode, success, output_path, error) ==
    [episode |-> episode, success |-> success,
     output_path |-> output_path, error |-> error]

\* tuple[i] with Python's index rule: a negative index counts from the end.
PyIndex(t, i) == IF i >= 0 THEN t[i + 1] ELSE t[Len(t) + i + 1]

\* The " | <title>" suffix of mkv_title_naming: <<title>>, or <<>> for "".
episode_title(episode_number, config_titles) ==
    IF config_titles # <<>> /\ episode_number <= Len(config_titles)
    THEN <<PyIndex(config_titles, episode_number - 1)>>
    ELSE <<>>

\* What the file system holds for one episode: a video matching
\* *NN*.mkv, audio matching *NN*.flac, the Dialog.ass file.
FsFacts == [video : BOOLEAN, audio : BOOLEAN, dialog : BOOLEAN]

\* The step of the external toolkit that raises for this episode, if any:
\* Premux (line 232), Chapters.from_sub (261), collect_fonts (262), or mux
\* (269, the only one inside try/except). Setup, GlobSearch and the SubFile
\* merges of _create_subtitle_file are taken to return normally.
FailPoints == {"none", "premux", "chapters", "fonts", "mux"}

\* _create_subtitle_file: None when the dialog file does not exist.
create_subtitle_file(fs) == fs.dialog

Call(episode, title, vl, al, sl, pm, mx, raised, fs) ==
    [episode |-> episode, title |-> title, video_lookup |-> vl, audio_lookup |-> al,
     sub_lookup |-> sl, premux |-> pm, mux_called |-> mx,
     raised |-> raised, fs |-> fs]

Returned(call, result) == [call |-> call, result |-> result]

\* The value standing for "no MuxResult": the call raised.
NoResult == MuxResult(-1, FALSE, None, "raised")

\* The normal-mode body of mux_episode, lines 219-281.
mux_episode_normal(episode_number, title, fs, fail) ==
    IF ~fs.video
    THEN Returned(Call(episode_number, title, TRUE, FALSE, FALSE, FALSE, FALSE, FALSE, fs),
                  MuxResult(episode_number, FALSE, None, "Video file not found"))
    ELSE IF fail = "premux"
    THEN Returned(Call(episode_number, title, TRUE, FALSE, FALSE, FALSE, FALSE, TRUE, fs), NoResult)
    ELSE IF ~fs.audio
    THEN Returned(Call(episode_number, title, TRUE, TRUE, FALSE, TRUE, FALSE, FALSE, fs),
                  MuxResult(episode_number, FALSE, None, "Audio files missing"))
    ELSE IF ~create_subtitle_file(fs)
    THEN Returned(Call(episode_number, title, TRUE, TRUE, TRUE, TRUE, FALSE, FALSE, fs),
                  MuxResult(episode_number, FALSE, None, "Subtitle files missing"))
    ELSE IF fail \in {"chapters", "fonts"}
    THEN Returned(Call(episode_number, title, TRUE, TRUE, TRUE, TRUE, FALSE, TRUE, fs), NoResult)
    ELSE IF fail = "mux"
    THEN Returned(Call(episode_number, title, TRUE, TRUE, TRUE, TRUE, TRUE, FALSE, fs),
                  MuxResult(episode_number, FALSE, None, "AssemblyError"))
    ELSE Returned(Call(episode_number, title, TRUE, TRUE, TRUE, TRUE, TRUE, FALSE, fs),
                  MuxResult(episode_number, TRUE, "outfile", None))

\* The mutant: dry-run mode does not return early.
mux_episode_no_dry_return(episode_number, mode, config_titles, fs, fail) ==
    mux_episode_normal(episode_number,
                       episode_title(episode_number, config_titles), fs, fail)

mux_episode(episode_number, mode, config_titles, fs, fail) ==
    LET title == episode_title(episode_number, config_titles)
    IN  IF mode = DRYRUN
        THEN IF ~create_subtitle_file(fs)
             THEN Returned(Call(episode_number, title, FALSE, FALSE, TRUE, FALSE, FALSE, FALSE, fs),
                           MuxResult(episode_number, FALSE, None,
                                     "Subtitle files missing"))
             ELSE Returned(Call(episode_number, title, FALSE, FALSE, TRUE, FALSE, FALSE, FALSE, fs),
                           MuxResult(episode_number, TRUE, None, None))
        ELSE mux_episode_normal(episode_number, title, fs, fail)

\* -------------------------------------------------------------------- state
VARIABLES
    episode_arg,      \* args.episode
    mode,             \* NORMAL or DRYRUN (args.dry_run)
    titles,           \* CONFIG.titles
    pc,               \* where main is: "start", "mux", "done" ("parsed": the
                      \* parser called on its own has returned)
    parsed,           \* what parse_episode_list returned or raised
    sub_paths,        \* the stems _discover_all_episodes found
    episode_numbers,  \* the selection main iterates over
    calls,            \* one record per mux_episode call made, in order
    results,          \* the MuxResults collected by the list comprehension
    exit_code         \* main's return value, -1 while it runs

vars == <<episode_arg, mode, titles, pc, parsed, sub_paths, episode_numbers,
          calls, results, exit_code>>

Strings(alphabet, n) == UNION {[1..k -> alphabet] : k \in 0..n}

\* Episode arguments the documentation and the specification name.
Examples ==
    {ALL,
     <<"3", ",", "1", ",", "1", ",", "2", "-", "3">>,
     <<"1", "-", "3", ",", "5">>,
     <<"1", "-", "2", ",", "O", "V", "A", "1", ",", "N", "C", "O", "P">>}

ParseAlphabet == {"0", "1", "2", ",", "-", " ", "a", "l"}

ParseArgs == Strings(ParseAlphabet, MaxLen) \cup Examples

MainAlphabet == {"0", "1", "2", ",", "-", "a"}

\* The arguments a run is started with: those whose selection, when the
\* parser accepts them, holds at most MaxEpisodes episodes.
MainArgs ==
    {a \in Strings(MainAlphabet, MainLen) \cup Examples :
        Expand(a).ok => Len(Expand(a).episodes) <= MaxEpisodes}

\* Stems of subtitle files under sub_dir: "01", "1", "a1", "02", "2a1", "10"
\* and "a" (a file without a number, such as songs/OP.ass).
Stems ==
    {<<"0", "1">>, <<"1">>, <<"a", "1">>, <<"0", "2">>, <<"2", "a", "1">>,
     <<"1", "0">>, <<"a">>}

TitleTuples == {[i \in 1..k |-> i] : k \in 0..MaxTitles}

Idle ==
    /\ pc = "start"
    /\ parsed = Ok(<<>>)
    /\ sub_paths = <<>>
    /\ episode_numbers = <<>>
    /\ calls = <<>>
    /\ results = <<>>
    /\ exit_code = -1

\* ------------------------------------------------ the parser called alone
InitParse ==
    /\ episode_arg \in ParseArgs
    /\ mode = NORMAL
    /\ titles = <<>>
    /\ Idle

ParseCall ==
    /\ pc = "start"
    /\ parsed' = parse_episode_list(episode_arg)
    /\ pc' = "parsed"
    /\ UNCHANGED <<episode_arg, mode, titles, sub_paths, episode_numbers,
                   calls, results, exit_code>>

NextParse == ParseCall

SpecParse == InitParse /\ [][NextParse]_vars

\* --------------------------------------------------------------------- main
Init ==
    /\ episode_arg \in MainArgs
    /\ mode \in {NORMAL, DRYRUN}
    /\ titles \in TitleTuples
    /\ Idle

Finish(code) == pc' = "done" /\ exit_code' = code

\* Lines 382-399: parse the argument, discover for "all", refuse an empty
\* selection.
MainParse ==
    /\ pc = "start"
    /\ parsed' = parse_episode_list(episode_arg)
    /\ IF ~parsed'.ok
       THEN /\ Finish(2)
            /\ UNCHANGED <<sub_paths, episode_numbers>>
       ELSE IF parsed'.episodes = <<>> /\ episode_arg = ALL
       THEN \E paths \in UNION {[1..k -> Stems] : k \in 0..MaxFiles} :
                /\ sub_paths' = paths
                /\ episode_numbers' = discover_all_episodes(paths)
                /\ IF episode_numbers' = <<>>
                   THEN Finish(1)
                   ELSE pc' = "mux" /\ UNCHANGED exit_code
       ELSE /\ episode_numbers' = parsed'.episodes
            /\ UNCHANGED sub_paths
            /\ IF episode_numbers' = <<>>
               THEN Finish(1)
               ELSE pc' = "mux" /\ UNCHANGED exit_code
    /\ UNCHANGED <<episode_arg, mode, titles, calls, results>>

\* One iteration of the list comprehension of lines 402-407. An exception
\* out of mux_episode leaves the comprehension and the try block: lines
\* 416-422 return 1.
MuxNext ==
    /\ pc = "mux"
    /\ Len(calls) < Len(episode_numbers)
    /\ \E fs \in FsFacts, fail \in FailPoints :
          LET r == mux_episode(episode_numbers[Len(calls) + 1], mode, titles,
                               fs, fail)
          IN  /\ calls' = Append(calls, r.call)
              /\ IF r.call.raised
                 THEN Finish(1) /\ UNCHANGED results
                 ELSE /\ results' = Append(results, r.result)
                      /\ UNCHANGED <<pc, exit_code>>
    /\ UNCHANGED <<episode_arg, mode, titles, parsed, sub_paths,
                   episode_numbers>>

Successful(rs) == Cardinality({i \in 1..Len(rs) : rs[i].success})

\* Line 414.
ExitStatus(successful, total) == IF successful > 0 THEN 0 ELSE 1

\* Lines 409-414.
Summarize ==
    /\ pc = "mux"
    /\ Len(calls) = Len(episode_numbers)
    /\ Finish(ExitStatus(Successful(results), Len(episode_numbers)))
    /\ UNCHANGED <<episode_arg, mode, titles, parsed, sub_paths,
                   episode_numbers, calls, results>>

Next == MainParse \/ MuxNext \/ Summarize

Spec == Init /\ [][Next]_vars

\* ------------------------------------------------------------ properties
IsStrictlyAscending(q) == \A i \in 1..(Len(q) - 1) : q[i] < q[i + 1]

\* str(n) for n >= 0.
RECURSIVE str(_)
str(n) ==
    IF n < 10 THEN <<DigitChars[n + 1]>>
    ELSE str(n \div 10) \o <<DigitChars[(n % 10) + 1]>>

Items(arg) == LET parts == split(arg, ",") IN {strip(parts[i]) : i \in 1..Len(parts)}

\* An item of the shape A-B, A and B non-negative integers.
IsRangeItem(item) ==
    LET parts == split(item, "-")
    IN  Len(parts) = 2 /\ isdigit(strip(parts[1])) /\ isdigit(strip(parts[2]))

\* A non-empty item that is neither a bare integer nor a range.
IsSpecialItem(item) == item # <<>> /\ ~isdigit(item) /\ ~IsRangeItem(item)

SpecialItems(arg) == {item \in Items(arg) : IsSpecialItem(item)}

\* Some item is a range A-B with A > B.
HasDescendingRange(arg) ==
    \E item \in Items(arg) :
        /\ IsRangeItem(item)
        /\ int(strip(split(item, "-")[1])) > int(strip(split(item, "-")[2]))

OnlyCommasAndWhitespace(arg) == \A i \in 1..Len(arg) : arg[i] \in {",", " "}

Spec_3_1_1_2to3 == <<"3", ",", "1", ",", "1", ",", "2", "-", "3">>

Spec_OVA_NCOP == <<"1", "-", "2", ",", "O", "V", "A", "1", ",", "N", "C", "O", "P">>

\* The parser returned for an argument other than "all" whose items are all
\* integers and ranges.
ParsedExplicit == pc = "parsed" /\ episode_arg # ALL /\ Expand(episode_arg).ok

C6_EmptySpecGivesEmptySelection ==
    (pc = "parsed" /\ OnlyCommasAndWhitespace(episode_arg)) =>
        parsed.ok /\ parsed.episodes = <<>>

AllSucceeded ==
    /\ Len(results) = Len(episode_numbers)
    /\ \A i \in 1..Len(results) : results[i].success

\* C2: a run over a non-empty selection returns 0 if and only if every
\* requested episode produced a successful outcome.
C2_ExitZeroIffAllSucceeded ==
    (pc = "done" /\ episode_numbers # <<>>) => (exit_code = 0 <=> AllSucceeded)

\* C3: a failure while processing one episode is recorded as a failed outcome
\* of that episode only: every episode of the selection is processed and
\* exactly n outcomes reach the summary.
C3_FailureStaysWithItsEpisode ==
    (pc = "done" /\ episode_numbers # <<>>) =>
        /\ Len(calls) = Len(episode_numbers)
        /\ Len(results) = Len(episode_numbers)
        /\ \A i \in 1..Len(results) : results[i].episode = episode_numbers[i]

MissingReasons ==
    {"Video file not found", "Audio files missing", "Subtitle files missing"}

Complete(fs) == fs.video /\ fs.audio /\ fs.dialog

\* C4: in normal mode mux is called for an episode only when video, audio and
\* subtitle are all resolved; when one is missing mux is not called, no
\* exception is raised and the outcome is a failure naming a missing class.
C4_MuxOnlyOnCompleteBundle ==
    mode = NORMAL =>
        \A i \in 1..Len(calls) :
            /\ calls[i].mux_called => Complete(calls[i].fs)
            /\ ~Complete(calls[i].fs) =>
                   /\ ~calls[i].mux_called
                   /\ ~calls[i].raised
                   /\ i <= Len(results)
                   /\ ~results[i].success
                   /\ results[i].error \in MissingReasons

\* C5: a spec the parser rejects (such as one with a range A-B, A > B) ends
\* the run with status 2 before anything is resolved: no discovery, no
\* mux_episode call, no outcome.
C5_InvalidSpecAbortsFirst ==
    (pc # "start" /\ (~parsed.ok \/ (episode_arg # ALL /\ HasDescendingRange(episode_arg)))) =>
        /\ pc = "done"
        /\ exit_code = 2
        /\ sub_paths = <<>>
        /\ episode_numbers = <<>>
        /\ calls = <<>>
        /\ results = <<>>

C5_Witness ==
    /\ episode_arg = <<"2", "-", "1">>
    /\ pc = "done"
    /\ exit_code = 2
    /\ calls = <<>>

DiscoveredIds ==
    {int(FirstDigitRun(sub_paths[i])) :
         i \in {k \in 1..Len(sub_paths) : HasDigit(sub_paths[k])}}

\* C9: for the spec "all" the selection main processes is the set of
\* identifiers discovered from the subtitle files, ascending, each once; when
\* none is discovered the run ends non-zero and processes nothing.
C9_AllIsAscendingDiscovery ==
    (episode_arg = ALL /\ pc # "start") =>
        /\ SeqSet(episode_numbers) = DiscoveredIds
        /\ IsStrictlyAscending(episode_numbers)
        /\ Len(calls) <= Len(episode_numbers)
        /\ \A i \in 1..Len(calls) : calls[i].episode = episode_numbers[i]
        /\ episode_numbers = <<>> =>
               (pc = "done" /\ exit_code # 0 /\ calls = <<>>)

C9_Witness ==
    /\ episode_arg = ALL
    /\ pc = "done"
    /\ sub_paths = << <<"a", "1">>, <<"0", "1">> >>
    /\ episode_numbers = <<1>>
    /\ Len(calls) = 1

\* C10: for every episode number n >= 0 the parser produces, mux_episode
\* attaches the n-th title T[n-1] when 1 <= n <= len(T) and no title
\* otherwise, n = 0 included.
C10_NthTitleOrNone ==
    episode_arg # ALL =>
        \A i \in 1..Len(calls) :
            LET n == calls[i].episode
            IN  calls[i].title =
                    (IF 1 <= n /\ n <= Len(titles) THEN <<titles[n]>> ELSE <<>>)

====
